---------------------------- MODULE Spec2Model ----------------------------
(***************************************************************************)
(* sshkeygen: brute-force search for ED25519 SSH key pairs whose public    *)
(* key text ends with one of the configured suffixes.                      *)
(*                                                                         *)
(* The model follows the worker-pool program (src/unnamed/part_000, lines  *)
(* 106-284): main validates the configuration, starts numWorkers worker    *)
(* goroutines and one progress reporter, and waits on the WaitGroup.  The  *)
(* single-threaded program of the same file (lines 1-104) is the second    *)
(* entry point of the repository; it runs in SpecRepo only.                *)
(*                                                                         *)
(* A string is a sequence of one-character strings.                        *)
(***************************************************************************)
EXTENDS Integers, Sequences, FiniteSets, TLC

VARIABLES
    prog,        \* which main is running: "pool" or "single"
    suffixes,    \* flag.Args(): the list of suffixes
    ignoreCase,  \* flag -i
    numWorkers,  \* flag -n
    passphrase,  \* os.Getenv("PASSPHRASE")
    observe,     \* whether the reporter's output is kept in seen
    proc,        \* the process: "running", "fatal", "exited", "panicked",
                 \* "killed"
    mainpc,      \* position of main
    spawned,     \* the loop variable i of the spawn loop
    wg,          \* the WaitGroup counter
    wpc,         \* wpc[w]: position of worker w's goroutine
    rng,         \* rng[w]: w.rng, the chacha20 stream of worker w
    cand,        \* cand[w]: the key pair of the current iteration
    added,       \* added[w]: value of counter written by w's latest add
    keyFile,     \* keyFile[w]: the time stamp of the current match
    counter,     \* totalAttempts
    found,       \* totalMatches
    now,         \* the latest value time.Now().UnixNano() returned
    files,       \* the working directory
    logged,      \* the lines written to the log
    rpc,         \* position of the reporter goroutine
    seen,        \* the value of counter the reporter printed last
    published,   \* largest counter value a found-add has published
    iter,        \* iter[w]: number of key pairs worker w generated
    sys,         \* history of the calls into the OS and the codec
    runs,        \* number of times a program was launched
    fates,       \* what became of <stem>.key after each failed .pub write
    probe,       \* the text hasSuffix is applied to (pure-function check)
    probeRes     \* the result of that application

vars == <<prog, suffixes, ignoreCase, numWorkers, passphrase, observe, proc,
          mainpc, spawned, wg, wpc, rng, cand, added, keyFile, counter, found,
          now, files, logged, rpc, seen, published, iter, sys, runs, fates,
          probe, probeRes>>

\* the configuration, fixed once the process has started
config == <<prog, suffixes, ignoreCase, numWorkers, passphrase, observe>>

\* the variables of the pure-function check
pure == <<probe, probeRes>>

-----------------------------------------------------------------------------
(* Bounds of the model *)

MaxWorkers == 2
MaxAttempts == 2
MaxTextLen == 3
MaxSuffixes == 2
MaxRuns == 2

Workers == 1..MaxWorkers

\* the main goroutine of the single-threaded program, as a worker id
Main == 0

Threads == {Main} \cup Workers

-----------------------------------------------------------------------------
(* Strings *)

Alphabet == {"a", "A", "b", "B"}

\* unicode.ToLower on one character
ToLowerChar(c) == CASE c = "A" -> "a" [] c = "B" -> "b" [] OTHER -> c

\* strings.ToLower
ToLower(s) == [i \in 1..Len(s) |-> ToLowerChar(s[i])]

\* strings.HasSuffix(s, suffix):
\*   len(s) >= len(suffix) && s[len(s)-len(suffix):] == suffix
StringsHasSuffix(s, suffix) ==
    /\ Len(s) >= Len(suffix)
    /\ SubSeq(s, Len(s) - Len(suffix) + 1, Len(s)) = suffix

\* The loop of hasSuffix from index i on; s is already folded.
RECURSIVE hasSuffixFrom(_, _, _, _)
hasSuffixFrom(s, sufs, ic, i) ==
    IF i > Len(sufs) THEN FALSE
    ELSE LET suffix == IF ic THEN ToLower(sufs[i]) ELSE sufs[i]
         IN  IF StringsHasSuffix(s, suffix) THEN TRUE
             ELSE hasSuffixFrom(s, sufs, ic, i + 1)

\* hasSuffix as it would be with the text always lower-cased and the
\* suffixes never
hasSuffixLowerTextOnly(s, sufs, ic) == hasSuffixFrom(ToLower(s), sufs, FALSE, 1)

\* hasSuffix(s, suffixes) with the package variable ignoreCase as ic
hasSuffixIC(s, sufs, ic) ==
    hasSuffixFrom(IF ic THEN ToLower(s) ELSE s, sufs, ic, 1)

hasSuffix(s, sufs) == hasSuffixIC(s, sufs, ignoreCase)

-----------------------------------------------------------------------------
(* Key pairs and the codec.  A key pair is an index into KeyBlobs; the     *)
(* entry is the base64 text of its public-key blob.                        *)

KeyBlobs == << <<"A", "b">>, <<"a", "b">>, <<"A", "b", "B">>, <<"b", "A">> >>

NumKeys == Len(KeyBlobs)

KeyType == <<"ssh-ed25519">>

\* what rand.Read can fill a buffer with
EntropyVals == {0, 1}

NoRng == [st |-> -1, ctr |-> 0]

NoCand == [kp |-> 0, src |-> 0]

NoPoll == -1

\* chacha20.NewUnauthenticatedCipher(key, nonce): the cipher state the
\* pair determines; no error for a 32-byte key and a 24-byte nonce
NewUnauthenticatedCipher(key, nonce) == [st |-> (key + nonce) % 2, ctr |-> 0]

\* chacha20Reader.Read: the next keystream block of the stream, no error
Read(r) == [bytes |-> (2 * r.st + r.ctr) % NumKeys,
            err |-> FALSE,
            next |-> [r EXCEPT !.ctr = r.ctr + 1]]

\* ed25519.GenerateKey(rng): the key pair the seed bytes determine
GenerateKey(r) == [kp |-> Read(r).bytes + 1, err |-> Read(r).err,
                   next |-> Read(r).next]

\* one stream for all workers instead of one each
RngOfShared(w) == 1

\* the stream worker w generates from: w.rng of its own goroutine
RngOf(w) == w

\* publicKeyString as it would be if it encoded one and the same key
publicKeyStringOfFirst(kp) == KeyType \o <<" ">> \o KeyBlobs[1]

\* publicKeyString(pub): "<type> <base64 blob>"
publicKeyString(kp) == KeyType \o <<" ">> \o KeyBlobs[kp]

\* privateKeyPEM as it would be with ssh.MarshalPrivateKey on both branches
privateKeyPEMPlain(kp, pass) == <<"PEM", "none">> \o pass \o KeyBlobs[kp]

\* privateKeyPEM(priv, passphrase): the PEM text of the OPENSSH PRIVATE KEY
\* container (ssh.MarshalPrivateKeyWithPassphrase when a passphrase is
\* configured, ssh.MarshalPrivateKey when not), given that marshalling
\* returned a block
privateKeyPEM(kp, pass) ==
    <<"PEM", IF Len(pass) > 0 THEN "bcrypt" ELSE "none">> \o pass
        \o KeyBlobs[kp]

-----------------------------------------------------------------------------
(* Files.  A file is a record; its name is <stem>.<ext>, ext "key" for     *)
(* <stem>.key and "pub" for <stem>.key.pub.                                *)

FileNamed(fs, stem, ext) == {f \in fs : f.stem = stem /\ f.ext = ext}

\* os.WriteFile as it would be if it always created world-readable files
WriteFileWorldReadable(fs, stem, ext, data, perm, outcome) ==
    IF outcome = "openfail" THEN fs
    ELSE (fs \ FileNamed(fs, stem, ext))
             \cup {[stem |-> stem, ext |-> ext, perm |-> "0644",
                    data |-> IF outcome = "ok" THEN data ELSE <<>>]}

\* os.WriteFile(name, data, perm): an existing file is truncated and keeps
\* its permissions; a new one is created with perm.  outcome "ok" writes
\* data, "writefail" leaves the created or truncated file without it (the
\* text <<>> stands for the incomplete content), "openfail" changes
\* nothing.
WriteFile(fs, stem, ext, data, perm, outcome) ==
    LET old == FileNamed(fs, stem, ext)
        p == IF old = {} THEN perm ELSE (CHOOSE f \in old : TRUE).perm
        new == [stem |-> stem, ext |-> ext, perm |-> p,
                data |-> IF outcome = "ok" THEN data ELSE <<>>]
    IN  IF outcome = "openfail" THEN fs
        ELSE (fs \ old) \cup {new}

WriteOutcomes == {"ok", "openfail", "writefail"}

\* os.Remove(name)
Remove(fs, stem, ext) == fs \ FileNamed(fs, stem, ext)

\* the values the wall clock can show
Clock == {1, 2}

\* time.Now().UnixNano(): the wall clock has not gone back since the
\* latest reading
TimeNow == {t \in Clock : t >= now}

\* log.Printf of one line by thread w in its current iteration
Log(kind, w, kp, stem) ==
    logged \cup {[kind |-> kind, run |-> runs, w |-> w, it |-> iter[w],
                  kp |-> kp, stem |-> stem]}

\* the record of a call of thread w, in its iteration it, into the OS or
\* the codec
EvAt(op, w, it, what, outcome) ==
    [op |-> op, run |-> runs, w |-> w, it |-> it, what |-> what,
     outcome |-> outcome]

\* the record of such a call in the current iteration of w
Ev(op, w, what, outcome) == EvAt(op, w, iter[w], what, outcome)

RECURSIVE SumTo(_, _)
SumTo(f, n) == IF n = 0 THEN 0 ELSE f[n] + SumTo(f, n - 1)

\* the number of key pairs the workers have generated
Generated == SumTo(iter, MaxWorkers) + iter[Main]

-----------------------------------------------------------------------------
(* Initial states: the command line and the environment are the inputs.    *)

ConfigSuffixes == { <<>>, << <<"A", "b">>, <<"b", "A">> >> }

\* the flag -i and the environment variable PASSPHRASE: -i is read by
\* hasSuffix only and the passphrase by privateKeyPEM only, so each value
\* of the one is run with one value of the other
Environments ==
    { [ignoreCase |-> FALSE, passphrase |-> <<>>],
      [ignoreCase |-> TRUE, passphrase |-> <<"p">>] }

\* the state of a process that has just started
InitProcess ==
    /\ proc = "running"
    /\ mainpc = "validate"
    /\ spawned = 0
    /\ wg = 0
    /\ wpc = [w \in Workers |-> "none"]
    /\ rng = [w \in Workers |-> NoRng]
    /\ cand = [w \in Threads |-> NoCand]
    /\ added = [w \in Workers |-> 0]
    /\ keyFile = [w \in Threads |-> 0]
    /\ counter = 0
    /\ found = 0
    /\ rpc = "none"
    /\ seen = NoPoll
    /\ published = 0
    /\ iter = [w \in Threads |-> 0]

\* an empty working directory, nothing logged yet
InitWorld ==
    /\ now = 1
    /\ files = {}
    /\ logged = {}
    /\ sys = {}
    /\ runs = 1
    /\ fates = {}
    /\ probe = <<>>
    /\ probeRes = "none"

InitPool ==
    /\ prog = "pool"
    /\ suffixes \in ConfigSuffixes
    /\ \E env \in Environments :
          /\ ignoreCase = env.ignoreCase
          /\ passphrase = env.passphrase
    /\ numWorkers \in -1..MaxWorkers
    /\ InitProcess
    /\ InitWorld

Init == InitPool /\ observe = FALSE

\* the same program with the reporter's output recorded
InitObserved == InitPool /\ observe = TRUE

Alive == proc = "running"

-----------------------------------------------------------------------------
(* main of the worker-pool program *)

\* the configuration check without the check of the worker count
ConfigErrorSuffixesOnly == Len(suffixes) = 0

\* the two log.Fatal checks of the configuration
ConfigError == Len(suffixes) = 0 \/ numWorkers < 1

\* flag.Parse(); the two checks; log.Fatal exits the process
Validate ==
    /\ Alive
    /\ prog = "pool"
    /\ mainpc = "validate"
    /\ IF ConfigError
       THEN /\ proc' = "fatal"
            /\ logged' = Log("usage", Main, 0, 0)
            /\ UNCHANGED mainpc
       ELSE /\ mainpc' = "spawn"
            /\ UNCHANGED <<proc, logged>>
    /\ UNCHANGED <<config, spawned, wg, wpc, rng, cand, added, keyFile,
                   counter, found, now, files, rpc, seen, published, iter,
                   sys, runs, fates, pure>>

\* one turn of the spawn loop: wg.Add(1); go func() {...}()
Spawn ==
    /\ Alive
    /\ mainpc = "spawn"
    /\ spawned < numWorkers
    /\ spawned' = spawned + 1
    /\ wg' = wg + 1
    /\ wpc' = [wpc EXCEPT ![spawned + 1] = "init"]
    /\ UNCHANGED <<config, proc, mainpc, rng, cand, added, keyFile, counter,
                   found, now, files, logged, rpc, seen, published, iter, sys,
                   runs, fates, pure>>

\* the spawn loop ends; go func() { ticker ... }()
StartReporter ==
    /\ Alive
    /\ mainpc = "spawn"
    /\ spawned >= numWorkers
    /\ rpc' = "ticking"
    /\ mainpc' = "wait"
    /\ UNCHANGED <<config, proc, spawned, wg, wpc, rng, cand, added, keyFile,
                   counter, found, now, files, logged, seen, published, iter,
                   sys, runs, fates, pure>>

\* wg.Wait() returns once every worker has returned; main returns and the
\* process exits
WaitReturns ==
    /\ Alive
    /\ mainpc = "wait"
    /\ wg = 0
    /\ mainpc' = "done"
    /\ proc' = "exited"
    /\ UNCHANGED <<config, spawned, wg, wpc, rng, cand, added, keyFile,
                   counter, found, now, files, logged, rpc, seen, published,
                   iter, sys, runs, fates, pure>>

-----------------------------------------------------------------------------
(* The worker goroutine *)

\* the calls of rand.Read that newWorker makes up to the outcome
EntropyReads(w, outcome) ==
    CASE outcome = "keyerr" -> {Ev("rand.Read", w, "key", "err")}
      [] outcome = "nonceerr" -> {Ev("rand.Read", w, "key", "ok"),
                                  Ev("rand.Read", w, "nonce", "err")}
      [] OTHER -> {Ev("rand.Read", w, "key", "ok"),
                   Ev("rand.Read", w, "nonce", "ok")}

\* newWorker() returns a worker: both reads of rand.Read succeeded
Seeded(w) ==
    \E k \in EntropyVals, n \in EntropyVals :
        /\ sys' = sys \cup EntropyReads(w, "ok")
        /\ rng' = [rng EXCEPT ![w] = NewUnauthenticatedCipher(k, n)]
        /\ wpc' = [wpc EXCEPT ![w] = "gen"]

\* newWorker() and its call as they would be with log.Fatalf on an error
\* of rand.Read
NewWorkerFatal(w) ==
    /\ Alive
    /\ wpc[w] = "init"
    /\ \/ Seeded(w) /\ UNCHANGED <<logged, wg, proc>>
       \/ \E outcome \in {"keyerr", "nonceerr"} :
             /\ sys' = sys \cup EntropyReads(w, outcome)
             /\ logged' = Log("initfail", w, 0, 0)
             /\ proc' = "fatal"
             /\ UNCHANGED <<rng, wpc, wg>>
    /\ UNCHANGED <<config, mainpc, spawned, cand, added, keyFile, counter,
                   found, now, files, rpc, seen, published, iter, runs, fates,
                   pure>>

\* newWorker() and its call as they would be with a time-seeded stream
\* when rand.Read fails
NewWorkerFallback(w) ==
    /\ Alive
    /\ wpc[w] = "init"
    /\ \/ Seeded(w) /\ UNCHANGED <<logged, wg, proc>>
       \/ \E outcome \in {"keyerr", "nonceerr"} :
             /\ sys' = sys \cup EntropyReads(w, outcome)
             /\ logged' = Log("initfail", w, 0, 0)
             /\ rng' = [rng EXCEPT ![w] = NewUnauthenticatedCipher(now, 0)]
             /\ wpc' = [wpc EXCEPT ![w] = "gen"]
             /\ UNCHANGED <<wg, proc>>
    /\ UNCHANGED <<config, mainpc, spawned, cand, added, keyFile, counter,
                   found, now, files, rpc, seen, published, iter, runs, fates,
                   pure>>

\* w, err := newWorker(): rand.Read(key), rand.Read(nonce), the cipher.
\* An error of either read is returned; the goroutine logs it and returns
\* (the deferred wg.Done runs).
NewWorker(w) ==
    /\ Alive
    /\ wpc[w] = "init"
    /\ \/ Seeded(w) /\ UNCHANGED <<logged, wg, proc>>
       \/ \E outcome \in {"keyerr", "nonceerr"} :
             /\ sys' = sys \cup EntropyReads(w, outcome)
             /\ logged' = Log("initfail", w, 0, 0)
             /\ wpc' = [wpc EXCEPT ![w] = "returned"]
             /\ wg' = wg - 1
             /\ UNCHANGED <<rng, proc>>
    /\ UNCHANGED <<config, mainpc, spawned, cand, added, keyFile, counter,
                   found, now, files, rpc, seen, published, iter, runs, fates,
                   pure>>

\* pub, priv, err := ed25519.GenerateKey(w.rng); on an error log, continue
Generate(w) ==
    /\ Alive
    /\ wpc[w] = "gen"
    /\ Generated < MaxAttempts
    /\ rng[RngOf(w)] # NoRng
    /\ LET g == GenerateKey(rng[RngOf(w)])
       IN  /\ rng' = [rng EXCEPT ![RngOf(w)] = g.next]
           /\ IF g.err
              THEN /\ logged' = Log("generr", w, 0, 0)
                   /\ UNCHANGED <<wpc, cand, iter>>
              ELSE /\ cand' = [cand EXCEPT
                                 ![w] = [kp |-> g.kp, src |-> RngOf(w)]]
                   /\ iter' = [iter EXCEPT ![w] = iter[w] + 1]
                   /\ wpc' = [wpc EXCEPT ![w] = "count"]
                   /\ UNCHANGED logged
    /\ UNCHANGED <<config, proc, mainpc, spawned, wg, added, keyFile, counter,
                   found, now, files, rpc, seen, published, sys, runs, fates,
                   pure>>

\* an increment that is lost
AddCounterLost(c) == c

\* atomic.AddInt64(&counter, 1)
AddCounter(c) == c + 1

\* the step of Count as it would be if hasSuffix stored the lower-cased
\* suffixes back into the list
CountFoldsInPlace(w) ==
    /\ Alive
    /\ wpc[w] = "count"
    /\ counter' = AddCounter(counter)
    /\ suffixes' = IF ignoreCase
                   THEN [i \in 1..Len(suffixes) |-> ToLower(suffixes[i])]
                   ELSE suffixes
    /\ IF hasSuffix(publicKeyString(cand[w].kp), suffixes)
       THEN /\ wpc' = [wpc EXCEPT ![w] = "hit"]
            /\ added' = [added EXCEPT ![w] = counter']
            /\ UNCHANGED cand
       ELSE /\ wpc' = [wpc EXCEPT ![w] = "gen"]
            /\ cand' = [cand EXCEPT ![w] = NoCand]
            /\ UNCHANGED added
    /\ UNCHANGED <<prog, ignoreCase, numWorkers, passphrase, observe, proc,
                   mainpc, spawned, wg, rng, keyFile, found, now, files,
                   logged, rpc, seen, published, iter, sys, runs, fates,
                   pure>>

\* atomic.AddInt64(&counter, 1); pubKey := publicKeyString(pub);
\* if !hasSuffix(pubKey, suffixes) continue
\* (ssh.NewPublicKey returns no error for the 32-byte key GenerateKey made)
Count(w) ==
    /\ Alive
    /\ wpc[w] = "count"
    /\ counter' = AddCounter(counter)
    /\ IF hasSuffix(publicKeyString(cand[w].kp), suffixes)
       THEN /\ wpc' = [wpc EXCEPT ![w] = "hit"]
            /\ added' = [added EXCEPT ![w] = counter']
            /\ UNCHANGED cand
       ELSE /\ wpc' = [wpc EXCEPT ![w] = "gen"]
            /\ cand' = [cand EXCEPT ![w] = NoCand]
            /\ UNCHANGED added
    /\ UNCHANGED <<config, proc, mainpc, spawned, wg, rng, keyFile, found, now,
                   files, logged, rpc, seen, published, iter, sys, runs, fates,
                   pure>>

\* an add to found that counts a match twice
AddFoundTwice(f) == f + 2

\* atomic.AddInt64(&found, 1)
AddFound(f) == f + 1

Hit(w) ==
    /\ Alive
    /\ wpc[w] = "hit"
    /\ found' = AddFound(found)
    /\ published' = IF added[w] > published THEN added[w] ELSE published
    /\ added' = [added EXCEPT ![w] = 0]
    /\ wpc' = [wpc EXCEPT ![w] = "encode"]
    /\ UNCHANGED <<config, proc, mainpc, spawned, wg, rng, cand, keyFile,
                   counter, now, files, logged, rpc, seen, iter, sys, runs,
                   fates, pure>>

\* privKey := privateKeyPEM(priv, passphrase), then the file name from
\* time.Now().UnixNano().  privateKeyPEM drops the error of
\* ssh.MarshalPrivateKey[WithPassphrase] and hands the nil block to
\* pem.EncodeToMemory, which dereferences it: the goroutine panics and the
\* process dies.
Encode(w) ==
    /\ Alive
    /\ wpc[w] = "encode"
    /\ \E outcome \in {"ok", "err"} :
          /\ sys' = sys \cup {Ev("encode", w, "private", outcome)}
          /\ IF outcome = "err"
             THEN /\ proc' = "panicked"
                  /\ UNCHANGED <<wpc, keyFile, now>>
             ELSE /\ \E t \in TimeNow :
                        /\ now' = t
                        /\ keyFile' = [keyFile EXCEPT ![w] = t]
                  /\ wpc' = [wpc EXCEPT ![w] = "wkey"]
                  /\ UNCHANGED proc
    /\ UNCHANGED <<config, mainpc, spawned, wg, rng, cand, added, counter,
                   found, files, logged, rpc, seen, published, iter, runs,
                   fates, pure>>

\* the private-key write as it would be without the continue on an error
WriteKeyNoContinue(w) ==
    /\ Alive
    /\ wpc[w] = "wkey"
    /\ \E outcome \in WriteOutcomes :
          /\ files' = WriteFile(files, keyFile[w], "key",
                                privateKeyPEM(cand[w].kp, passphrase),
                                "0600", outcome)
          /\ sys' = sys \cup {Ev("WriteFile", w, "key", outcome)}
          /\ logged' = IF outcome = "ok" THEN logged
                       ELSE Log("keyfail", w, cand[w].kp, keyFile[w])
          /\ wpc' = [wpc EXCEPT ![w] = "wpub"]
    /\ UNCHANGED <<config, proc, mainpc, spawned, wg, rng, cand, keyFile,
                   added, counter, found, now, rpc, seen, published, iter,
                   runs, fates, pure>>

\* if err := os.WriteFile(keyFile, privKey, 0600); err != nil
\*     { log.Printf("Failed to write private key"); continue }
WriteKey(w) ==
    /\ Alive
    /\ wpc[w] = "wkey"
    /\ \E outcome \in WriteOutcomes :
          /\ files' = WriteFile(files, keyFile[w], "key",
                                privateKeyPEM(cand[w].kp, passphrase),
                                "0600", outcome)
          /\ sys' = sys \cup {Ev("WriteFile", w, "key", outcome)}
          /\ IF outcome = "ok"
             THEN /\ wpc' = [wpc EXCEPT ![w] = "wpub"]
                  /\ UNCHANGED <<logged, cand, keyFile>>
             ELSE /\ logged' = Log("keyfail", w, cand[w].kp, keyFile[w])
                  /\ wpc' = [wpc EXCEPT ![w] = "gen"]
                  /\ cand' = [cand EXCEPT ![w] = NoCand]
                  /\ keyFile' = [keyFile EXCEPT ![w] = 0]
    /\ UNCHANGED <<config, proc, mainpc, spawned, wg, rng, added, counter,
                   found, now, rpc, seen, published, iter, runs, fates, pure>>

\* the worker-pool program as it would be if it removed <stem>.key after
\* the write of <stem>.key.pub failed
PoolAfterPubFailRemoves(fs, stem) == Remove(fs, stem, "key")

\* what the worker-pool program does with <stem>.key after the write of
\* <stem>.key.pub failed: nothing
PoolAfterPubFail(fs, stem) == fs

\* what became of <stem>.key
Fate(fs, stem) ==
    IF FileNamed(fs, stem, "key") = {} THEN "removed" ELSE "left"

\* the public-key write as it would be without the continue on an error
WritePubNoContinue(w) ==
    /\ Alive
    /\ wpc[w] = "wpub"
    /\ \E outcome \in WriteOutcomes :
          /\ files' = WriteFile(files, keyFile[w], "pub",
                                publicKeyString(cand[w].kp) \o <<"\n">>,
                                "0644", outcome)
          /\ sys' = sys \cup {Ev("WriteFile", w, "pub", outcome)}
          /\ logged' = IF outcome = "ok" THEN logged
                       ELSE Log("pubfail", w, cand[w].kp, keyFile[w])
          /\ wpc' = [wpc EXCEPT ![w] = "log"]
    /\ UNCHANGED <<config, proc, mainpc, spawned, wg, rng, cand, keyFile,
                   added, counter, found, now, rpc, seen, published, iter,
                   runs, fates, pure>>

\* if err := os.WriteFile(pubFile, []byte(pubKey+"\n"), 0644); err != nil
\*     { log.Printf("Failed to write public key"); continue }
WritePub(w) ==
    /\ Alive
    /\ wpc[w] = "wpub"
    /\ \E outcome \in WriteOutcomes :
          LET written == WriteFile(files, keyFile[w], "pub",
                                   publicKeyString(cand[w].kp) \o <<"\n">>,
                                   "0644", outcome)
          IN  /\ sys' = sys \cup {Ev("WriteFile", w, "pub", outcome)}
              /\ IF outcome = "ok"
                 THEN /\ files' = written
                      /\ wpc' = [wpc EXCEPT ![w] = "log"]
                      /\ UNCHANGED <<logged, cand, keyFile, fates>>
                 ELSE /\ files' = PoolAfterPubFail(written, keyFile[w])
                      /\ fates' = fates \cup {Fate(files', keyFile[w])}
                      /\ logged' = Log("pubfail", w, cand[w].kp, keyFile[w])
                      /\ wpc' = [wpc EXCEPT ![w] = "gen"]
                      /\ cand' = [cand EXCEPT ![w] = NoCand]
                      /\ keyFile' = [keyFile EXCEPT ![w] = 0]
    /\ UNCHANGED <<config, proc, mainpc, spawned, wg, rng, added, counter,
                   found, now, rpc, seen, published, iter, runs, pure>>

\* log.Printf("Found %s -> %s*", pubKey, keyFile); the loop goes round
LogFound(w) ==
    /\ Alive
    /\ wpc[w] = "log"
    /\ logged' = Log("found", w, cand[w].kp, keyFile[w])
    /\ wpc' = [wpc EXCEPT ![w] = "gen"]
    /\ cand' = [cand EXCEPT ![w] = NoCand]
    /\ keyFile' = [keyFile EXCEPT ![w] = 0]
    /\ UNCHANGED <<config, proc, mainpc, spawned, wg, rng, added, counter,
                   found, now, files, rpc, seen, published, iter, sys, runs,
                   fates, pure>>

-----------------------------------------------------------------------------
(* The progress reporter *)

\* float64(counter): a plain read, in a race with the workers' atomic
\* adds.  It returns the value of some add that is not ordered before
\* another add that happens before the read; the adds ordered before the
\* read are those the preceding atomic load of found has seen published.
ReadCounter == published..counter

\* hits := atomic.LoadInt64(&found)
LoadFound == found

\* one tick: the line "Searched ... key pairs ..., hit ..." is printed
Poll ==
    /\ Alive
    /\ rpc = "ticking"
    /\ \E c \in ReadCounter, hits \in {LoadFound} :
          seen' = IF observe THEN c ELSE seen
    /\ UNCHANGED <<config, proc, mainpc, spawned, wg, wpc, rng, cand, added,
                   keyFile, counter, found, now, files, logged, rpc,
                   published, iter, sys, runs, fates, pure>>

-----------------------------------------------------------------------------
(* The single-threaded program (src/unnamed/part_000, lines 19-60).  Its   *)
(* only goroutine is Main; i and found are its locals, kept in iter[Main]  *)
(* and found.                                                              *)

\* flag.Parse(); if len(suffixes) == 0 { log.Fatalf(...) }
SeqValidate ==
    /\ Alive
    /\ prog = "single"
    /\ mainpc = "validate"
    /\ IF Len(suffixes) = 0
       THEN /\ proc' = "fatal"
            /\ logged' = Log("usage", Main, 0, 0)
            /\ UNCHANGED mainpc
       ELSE /\ mainpc' = "loop"
            /\ UNCHANGED <<proc, logged>>
    /\ UNCHANGED <<config, spawned, wg, wpc, rng, cand, added, keyFile,
                   counter, found, now, files, rpc, seen, published, iter,
                   sys, runs, fates, pure>>

\* i++; generateKeys() from rand.Reader; on an error log and continue;
\* if hasSuffix(base64Data, suffixes) { found++; keyFile := ... }
SeqGenerate ==
    /\ Alive
    /\ mainpc = "loop"
    /\ Generated < MaxAttempts
    /\ iter' = [iter EXCEPT ![Main] = iter[Main] + 1]
    /\ \E kp \in 0..NumKeys :
          IF kp = 0
          THEN /\ logged' = Log("generr", Main, 0, 0)
               /\ UNCHANGED <<cand, found, keyFile, now, mainpc>>
          ELSE IF hasSuffix(KeyBlobs[kp], suffixes)
          THEN /\ found' = found + 1
               /\ cand' = [cand EXCEPT ![Main] = [kp |-> kp, src |-> Main]]
               /\ \E t \in TimeNow :
                     /\ now' = t
                     /\ keyFile' = [keyFile EXCEPT ![Main] = t]
               /\ mainpc' = "wkey"
               /\ UNCHANGED logged
          ELSE UNCHANGED <<cand, found, keyFile, now, mainpc, logged>>
    /\ UNCHANGED <<config, proc, spawned, wg, wpc, rng, added, counter, files,
                   rpc, seen, published, sys, runs, fates, pure>>

\* if err := os.WriteFile(keyFile, privateKeyPEM, 0600); err != nil
\*     { log.Printf(...); continue }
SeqWriteKey ==
    /\ Alive
    /\ mainpc = "wkey"
    /\ \E outcome \in WriteOutcomes :
          /\ files' = WriteFile(files, keyFile[Main], "key",
                                privateKeyPEM(cand[Main].kp, <<>>),
                                "0600", outcome)
          /\ sys' = sys \cup {Ev("WriteFile", Main, "key", outcome)}
          /\ IF outcome = "ok"
             THEN /\ mainpc' = "wpub"
                  /\ UNCHANGED <<logged, cand, keyFile>>
             ELSE /\ logged' = Log("keyfail", Main, cand[Main].kp,
                                   keyFile[Main])
                  /\ mainpc' = "loop"
                  /\ cand' = [cand EXCEPT ![Main] = NoCand]
                  /\ keyFile' = [keyFile EXCEPT ![Main] = 0]
    /\ UNCHANGED <<config, proc, spawned, wg, wpc, rng, added, counter, found,
                   now, rpc, seen, published, iter, runs, fates, pure>>

\* what the single-threaded program does with <stem>.key after the write
\* of <stem>.key.pub failed: os.Remove(keyFile)
SeqAfterPubFail(fs, stem) == Remove(fs, stem, "key")

\* if err := os.WriteFile(pubFile, publicKeyBytes, 0644); err != nil
\*     { log.Printf(...); os.Remove(keyFile); continue }
\* log.Printf("Found %s, saved to %s", ...)
SeqWritePub ==
    /\ Alive
    /\ mainpc = "wpub"
    /\ \E outcome \in WriteOutcomes :
          LET written == WriteFile(files, keyFile[Main], "pub",
                                   publicKeyString(cand[Main].kp) \o <<"\n">>,
                                   "0644", outcome)
          IN  /\ sys' = sys \cup {Ev("WriteFile", Main, "pub", outcome)}
              /\ IF outcome = "ok"
                 THEN /\ files' = written
                      /\ logged' = Log("found", Main, cand[Main].kp,
                                       keyFile[Main])
                      /\ UNCHANGED fates
                 ELSE /\ files' = SeqAfterPubFail(written, keyFile[Main])
                      /\ fates' = fates \cup {Fate(files', keyFile[Main])}
                      /\ logged' = Log("pubfail", Main, cand[Main].kp,
                                       keyFile[Main])
    /\ mainpc' = "loop"
    /\ cand' = [cand EXCEPT ![Main] = NoCand]
    /\ keyFile' = [keyFile EXCEPT ![Main] = 0]
    /\ UNCHANGED <<config, proc, spawned, wg, wpc, rng, added, counter, found,
                   now, rpc, seen, published, iter, runs, pure>>

-----------------------------------------------------------------------------
(* The user: both programs never return on their own, so a run ends when   *)
(* the user interrupts it; a program is then started again in the same     *)
(* directory.                                                              *)

\* SIGINT
Interrupt ==
    /\ Alive
    /\ runs < MaxRuns
    /\ proc' = "killed"
    /\ UNCHANGED <<config, mainpc, spawned, wg, wpc, rng, cand, added,
                   keyFile, counter, found, now, files, logged, rpc, seen,
                   published, iter, sys, runs, fates, pure>>

\* one of the two programs is started; the directory, the log and the
\* clock are those the previous run left
Launch ==
    /\ ~Alive
    /\ runs < MaxRuns
    /\ runs' = runs + 1
    /\ prog' \in {"pool", "single"}
    /\ proc' = "running"
    /\ mainpc' = "validate"
    /\ spawned' = 0
    /\ wg' = 0
    /\ wpc' = [w \in Workers |-> "none"]
    /\ rng' = [w \in Workers |-> NoRng]
    /\ cand' = [w \in Threads |-> NoCand]
    /\ added' = [w \in Workers |-> 0]
    /\ keyFile' = [w \in Threads |-> 0]
    /\ counter' = 0
    /\ found' = 0
    /\ rpc' = "none"
    /\ seen' = NoPoll
    /\ published' = 0
    /\ iter' = [w \in Threads |-> 0]
    /\ UNCHANGED <<suffixes, ignoreCase, numWorkers, passphrase, observe, now,
                   files, logged, sys, fates, pure>>

-----------------------------------------------------------------------------
(* The next-state relations and the specifications *)

Worker(w) ==
    \/ NewWorker(w)
    \/ Generate(w)
    \/ Count(w)
    \/ Hit(w)
    \/ Encode(w)
    \/ WriteKey(w)
    \/ WritePub(w)
    \/ LogFound(w)

Next ==
    \/ Validate
    \/ Spawn
    \/ StartReporter
    \/ WaitReturns
    \/ \E w \in Workers : Worker(w)
    \/ Poll

\* the worker-pool program
Spec == Init /\ [][Next]_vars

\* the worker-pool program, the reporter's output recorded
SpecObserved == InitObserved /\ [][Next]_vars

\* the worker-pool program with the Go scheduler's guarantee for the
\* worker goroutines: a goroutine that can run is run in the end
SpecFair ==
    /\ Init
    /\ [][Next]_vars
    /\ \A w \in Workers : WF_vars(Worker(w))

\* a directory in which the programs of the repository are run one after
\* the other, with one worker and a suffix list that matches
InitRepo ==
    /\ prog \in {"pool", "single"}
    /\ suffixes = << <<"A", "b">>, <<"b", "A">> >>
    /\ ignoreCase = FALSE
    /\ numWorkers = 1
    /\ passphrase = <<>>
    /\ observe = FALSE
    /\ InitProcess
    /\ InitWorld

NextRepo ==
    \/ Next
    \/ SeqValidate
    \/ SeqGenerate
    \/ SeqWriteKey
    \/ SeqWritePub
    \/ Interrupt
    \/ Launch

SpecRepo == InitRepo /\ [][NextRepo]_vars

-----------------------------------------------------------------------------
(* hasSuffix as a pure function: the inputs are drawn in the initial state *)
(* and the one action applies the function.                                *)

Texts == UNION {[1..n -> Alphabet] : n \in 0..MaxTextLen}

SuffixPool == { <<>>, <<"b">>, <<"a", "b">>, <<"A", "B">>, <<"B", "a">> }

SuffixLists == UNION {[1..n -> SuffixPool] : n \in 0..MaxSuffixes}

InitMatch ==
    /\ prog = "pool"
    /\ suffixes \in SuffixLists
    /\ ignoreCase \in BOOLEAN
    /\ numWorkers = 1
    /\ passphrase = <<>>
    /\ observe = FALSE
    /\ InitProcess
    /\ now = 1
    /\ files = {}
    /\ logged = {}
    /\ sys = {}
    /\ runs = 1
    /\ fates = {}
    /\ probe \in Texts
    /\ probeRes = "none"

ApplyHasSuffix ==
    /\ probeRes = "none"
    /\ probeRes' = IF hasSuffix(probe, suffixes) THEN "true" ELSE "false"
    /\ UNCHANGED <<config, proc, mainpc, spawned, wg, wpc, rng, cand, added,
                   keyFile, counter, found, now, files, logged, rpc, seen,
                   published, iter, sys, runs, fates, probe>>

NextMatch == ApplyHasSuffix

SpecMatch == InitMatch /\ [][NextMatch]_vars

-----------------------------------------------------------------------------
(* Properties *)

\* fold(x, f): x lower-cased when f, x itself otherwise
Fold(x, f) ==
    [i \in 1..Len(x) |->
        IF f /\ x[i] = "A" THEN "a" ELSE IF f /\ x[i] = "B" THEN "b" ELSE x[i]]

\* t ends with s: t is some prefix of t followed by s
EndsWith(t, s) == \E k \in 0..Len(t) : t = SubSeq(t, 1, k) \o s

\* matches(text, S, f) of the specification
Matches(text, S, f) ==
    \E i \in 1..Len(S) : EndsWith(Fold(text, f), Fold(S[i], f))

\* C1: hasSuffix(text, S) is true exactly when some s in S is such that the
\* folded text ends with the folded s (folding lower-cases when ignoreCase
\* is set and is the identity otherwise); it is false for an empty S.
C1_HasSuffixIffSomeFoldedSuffix ==
    probeRes # "none" =>
        /\ probeRes = "true" <=> Matches(probe, suffixes, ignoreCase)
        /\ Len(suffixes) = 0 => probeRes = "false"

\* Scenario B: an upper-case suffix, ignore-case set, a text ending in the
\* lower-case letters, reported as a match
C1_Witness ==
    /\ probeRes = "true"
    /\ ignoreCase
    /\ suffixes = << <<"A", "B">> >>
    /\ probe = <<"B", "a", "b">>

\* the candidate satisfies the suffix predicate of the specification
Satisfies(kp) == Matches(publicKeyString(kp), suffixes, ignoreCase)

\* the key pair that the i-th read (from 0) of a stream seeded st yields
KpAt(st, i) == ((2 * st + i) % NumKeys) + 1

\* the number of satisfying candidates among those worker w has generated
NSat(w) ==
    Cardinality({i \in 0..(iter[w] - 1) : Satisfies(KpAt(rng[w].st, i))})

\* the workers whose current candidate is generated and not yet counted
Uncounted == {w \in Workers : wpc[w] = "count"}

\* the workers whose current candidate satisfies the predicate and is not
\* yet added to totalMatches
Unmatched ==
    {w \in Workers : wpc[w] \in {"count", "hit"} /\ Satisfies(cand[w].kp)}

WriteFailures == {e \in sys : e.op = "WriteFile" /\ e.outcome # "ok"}

\* C2: under every interleaving totalAttempts (counter) is the number of
\* candidates generated and counted, totalMatches (found) is the number of
\* those that satisfy the suffix predicate, whatever the writes did; with
\* one worker and no write failure, once the iteration of the first
\* satisfying candidate is over, found is 1 and exactly one <stem>.key /
\* <stem>.key.pub pair exists.
C2_CountersExact ==
    /\ counter = Generated - Cardinality(Uncounted)
    /\ found = SumTo([w \in Workers |-> NSat(w)], MaxWorkers)
                   - Cardinality(Unmatched)
    /\ (/\ numWorkers = 1
        /\ wpc[1] = "gen"
        /\ NSat(1) = 1
        /\ WriteFailures = {})
       => /\ found = 1
          /\ \E t \in Clock :
                /\ {f.stem : f \in files} = {t}
                /\ Cardinality(FileNamed(files, t, "key")) = 1
                /\ Cardinality(FileNamed(files, t, "pub")) = 1
                /\ Cardinality(files) = 2

\* Scenario A: one worker, two candidates, the first one matches; its pair
\* is on disk and the counters are 2 and 1
C2_Witness ==
    /\ numWorkers = 1
    /\ wpc[1] = "gen"
    /\ counter = 2
    /\ found = 1
    /\ WriteFailures = {}
    /\ Cardinality(files) = 2

\* C3: no step decreases totalAttempts or totalMatches, and the value of
\* totalAttempts the reporter reads at a poll is at least the value it
\* read at the poll before.
C3_NeverDecrease ==
    [][/\ counter' >= counter
       /\ found' >= found
       /\ seen # NoPoll => seen' >= seen]_vars

KeyWrites == {e \in sys : e.op = "WriteFile" /\ e.what = "key"}

KeyFailures == {e \in KeyWrites : e.outcome # "ok"}

\* the events and the log lines of the iteration of event e
SameIteration(e, x) == x.run = e.run /\ x.w = e.w /\ x.it = e.it

\* C4: an iteration whose write of <stem>.key failed has no write of
\* <stem>.key.pub and no "Found" line, has the failure logged, has made no
\* second attempt at the key write, and is over: the worker is back at the
\* head of the loop; the match stays counted in totalMatches.
C4_KeyWriteFailureAbandonsMatch ==
    /\ \A e \in KeyFailures :
          /\ \A outcome \in WriteOutcomes :
                EvAt("WriteFile", e.w, e.it, "pub", outcome) \notin sys
          /\ ~ \E l \in logged : SameIteration(e, l) /\ l.kind = "found"
          /\ \E l \in logged : SameIteration(e, l) /\ l.kind = "keyfail"
          /\ \A outcome \in WriteOutcomes \ {e.outcome} :
                EvAt("WriteFile", e.w, e.it, "key", outcome) \notin sys
          /\ iter[e.w] = e.it => wpc[e.w] = "gen"
    /\ Cardinality({<<e.w, e.it>> : e \in KeyWrites}) <= found

\* a worker whose key write failed has generated the next candidate
C4_Witness ==
    \E e \in KeyFailures : iter[e.w] > e.it /\ wpc[e.w] = "count"

PubFailures ==
    {e \in sys : e.op = "WriteFile" /\ e.what = "pub" /\ e.outcome # "ok"}

\* C5: wherever a match is persisted, a failed write of <stem>.key.pub
\* leaves the <stem>.key written before it to one and the same fate (always
\* left, or always removed); the failure is logged and the iteration has
\* no "Found" line.
C5_OnePolicyForPubFailure ==
    /\ Cardinality(fates) <= 1
    /\ \A e \in PubFailures :
          /\ \E l \in logged : SameIteration(e, l) /\ l.kind = "pubfail"
          /\ ~ \E l \in logged : SameIteration(e, l) /\ l.kind = "found"

\* C6: with an empty suffix list or a worker count below 1 main never gets
\* past the validation: the process ends by log.Fatal, no worker and no
\* reporter is started, nothing is generated, both counters stay 0 and no
\* file is written.
C6_BadConfigRejectedBeforeWorkers ==
    (Len(suffixes) = 0 \/ numWorkers < 1) =>
        /\ mainpc = "validate"
        /\ proc \in {"running", "fatal"}
        /\ proc = "fatal" => \E l \in logged : l.kind = "usage"
        /\ spawned = 0
        /\ \A w \in Workers : wpc[w] = "none"
        /\ rpc = "none"
        /\ Generated = 0
        /\ counter = 0 /\ found = 0
        /\ files = {}
        /\ sys = {}

\* a worker count of 0 with suffixes given: the process has ended
C6_Witness == proc = "fatal" /\ numWorkers = 0 /\ Len(suffixes) > 0

\* the workers one of whose reads of rand.Read failed in newWorker
EntropyFailed ==
    {w \in Workers :
        \E what \in {"key", "nonce"} :
            EvAt("rand.Read", w, 0, what, "err") \in sys}

C8_FailedWorkerStopsWithoutStream ==
    \A w \in EntropyFailed :
        /\ \E l \in logged : l.kind = "initfail" /\ l.w = w
        /\ \A l \in logged : l.w = w => l.kind = "initfail"
        /\ wpc[w] = "returned"
        /\ rng[w] = NoRng
        /\ iter[w] = 0
        /\ cand[w] = NoCand
        /\ added[w] = 0
        /\ \A e \in sys : e.w = w => e.op = "rand.Read"

\* the read of the nonce failed for one worker while the other one has
\* found a match
C8_Witness ==
    /\ \E e \in sys : /\ e.op = "rand.Read" /\ e.what = "nonce"
                      /\ e.outcome = "err" /\ wpc[e.w] = "returned"
    /\ found = 1

EncodeFailures == {e \in sys : e.op = "encode" /\ e.outcome = "err"}

\* C9: an encoding that fails is logged, its iteration is abandoned without
\* a file written, and neither the worker nor the process is aborted by it.
C9_EncodingFailureNonFatal ==
    \A e \in EncodeFailures :
        /\ proc # "panicked"
        /\ \E l \in logged : SameIteration(e, l) /\ l.kind = "encfail"
        /\ \A what \in {"key", "pub"}, outcome \in WriteOutcomes :
              EvAt("WriteFile", e.w, e.it, what, outcome) \notin sys
        /\ wpc[e.w] # "returned"

\* the workers whose goroutine has been started
Started == {w \in Workers : wpc[w] # "none"}

\* the workers that newWorker returned a worker for
Initialised == {w \in Workers : wpc[w] \notin {"none", "init", "returned"}}

\* C10: with a worker count N >= 1 the spawn loop starts exactly N workers;
\* a worker that runs has read one key and one nonce from the entropy
\* source, at its own start-up and at no other time; every candidate of
\* worker w comes from w's stream, and the stream of w has been read
\* exactly once per candidate of w, so by no other worker.
C10_OwnStreamPerWorker ==
    /\ Started = 1..spawned
    /\ numWorkers >= 1 => spawned <= numWorkers
    /\ mainpc \in {"wait", "done"} => Cardinality(Started) = numWorkers
    /\ \A e \in sys : e.op = "rand.Read" => e.it = 0 /\ e.w \in Started
    /\ \A w \in Initialised :
          /\ \A what \in {"key", "nonce"} :
                EvAt("rand.Read", w, 0, what, "ok") \in sys
          /\ rng[w] # NoRng
    /\ \A w \in Workers :
          /\ rng[w].ctr = iter[w]
          /\ cand[w] # NoCand =>
                /\ cand[w].src = w
                /\ cand[w].kp = KpAt(rng[w].st, iter[w] - 1)

\* two workers run and each has generated a candidate from its stream
C10_Witness ==
    /\ numWorkers = 2
    /\ mainpc = "wait"
    /\ iter[1] = 1 /\ iter[2] = 1
    /\ cand[1].src = 1 /\ cand[2].src = 2

\* the "Found" lines of the log
FoundLines == {l \in logged : l.kind = "found"}

\* the writes of <stem>.key.pub that succeeded
PubWritten ==
    {e \in sys : e.op = "WriteFile" /\ e.what = "pub" /\ e.outcome = "ok"}

\* C11: a "Found" line is written only by a worker whose iteration has
\* written <stem>.key and then <stem>.key.pub successfully; the line names
\* the public key of that iteration's candidate and that iteration's stem;
\* an iteration has at most one line, and has one once it is over with
\* both writes done.  At every moment the number of "Found" lines is at
\* most the number of successful public-key writes, which is at most found.
C11_OneFoundLinePerPersistedMatch ==
    [][/\ \A l \in FoundLines' \ FoundLines :
             /\ wpc[l.w] = "log"
             /\ l.it = iter[l.w]
             /\ l.kp = cand[l.w].kp
             /\ l.stem = keyFile[l.w]
             /\ EvAt("WriteFile", l.w, l.it, "key", "ok") \in sys
             /\ EvAt("WriteFile", l.w, l.it, "pub", "ok") \in sys
       /\ \A e \in sys' \ sys :
             (e.op = "WriteFile" /\ e.what = "pub") =>
                 EvAt("WriteFile", e.w, e.it, "key", "ok") \in sys
       /\ \A l, m \in FoundLines' : (l.w = m.w /\ l.it = m.it) => l = m
       /\ \A e \in PubWritten' :
             (iter'[e.w] > e.it \/ wpc'[e.w] = "gen") =>
                 \E l \in FoundLines' : l.w = e.w /\ l.it = e.it
       /\ Cardinality(FoundLines') <= Cardinality(PubWritten')
       /\ Cardinality(PubWritten') <= found']_vars

\* two matches are persisted and each has its line
C11_Witness ==
    /\ Cardinality(FoundLines) = 2
    /\ Cardinality(PubWritten) = 2
    /\ found = 2

\* the files named <stem>.key
KeyFiles == {f \in files : f.ext = "key"}

\* the cipher named in the header of a private-key container
CipherOf(data) == data[2]

\* C12: with a passphrase configured every private key in a <stem>.key
\* file is in a passphrase-encrypted container, and an encryption that
\* fails leaves no write behind it; without a passphrase the container is
\* unencrypted.  (A write that failed midway leaves an incomplete file.)
C12_EncryptedIffPassphrase ==
    /\ \A f \in KeyFiles :
          Len(f.data) > 0 =>
              CipherOf(f.data) = IF Len(passphrase) > 0 THEN "bcrypt"
                                 ELSE "none"
    /\ \A e \in EncodeFailures :
          \A what \in {"key", "pub"}, outcome \in WriteOutcomes :
              EvAt("WriteFile", e.w, e.it, what, outcome) \notin sys

\* a passphrase is configured and an encrypted private key is on disk
C12_Witness ==
    /\ Len(passphrase) > 0
    /\ \E f \in KeyFiles : Len(f.data) > 0 /\ CipherOf(f.data) = "bcrypt"

\* the files named <stem>.key.pub
PubFiles == {f \in files : f.ext = "pub"}

\* the key pairs whose public key text matches
Matching == {kp \in 1..NumKeys : Satisfies(kp)}

\* the line '<algorithm-id> <base64-blob>' and one newline
PubLine(kp) == KeyType \o <<" ">> \o KeyBlobs[kp] \o <<"\n">>

\* the file left by a write that failed midway
Incomplete(f) == f.data = <<>>

\* what C13 says of the permissions and of the stems: a <stem>.key is
\* owner-only, a <stem>.key.pub is world-readable, private-key material is
\* in <stem>.key files only, and the two files a "Found" line stands for
\* have that line's stem
FilesWellPlaced ==
    /\ \A f \in files : f.ext \in {"key", "pub"}
    /\ \A f \in KeyFiles :
          /\ f.perm = "0600"
          /\ Incomplete(f) \/ \E kp \in Matching :
                                  f.data = privateKeyPEM(kp, passphrase)
    /\ \A f \in PubFiles :
          /\ f.perm = "0644"
          /\ \A kp \in 1..NumKeys : f.data # privateKeyPEM(kp, passphrase)
    /\ \A l \in FoundLines :
          /\ FileNamed(files, l.stem, "key") # {}
          /\ FileNamed(files, l.stem, "pub") # {}

\* C13 as stated: the files are well placed and every <stem>.key.pub
\* holds exactly the matched public-key line and one newline.
C13_EveryPubFileHoldsTheLine ==
    /\ FilesWellPlaced
    /\ \A f \in PubFiles : \E kp \in Matching : f.data = PubLine(kp)

\* C13 as the code has it: the files are well placed, and a <stem>.key.pub
\* holds exactly the matched public-key line and one newline unless the
\* latest write to it failed midway, which leaves an incomplete file that
\* no step removes or completes.
C13_PubFileHoldsTheLineOrIsIncomplete ==
    /\ FilesWellPlaced
    /\ \A f \in PubFiles :
          Incomplete(f) \/ \E kp \in Matching : f.data = PubLine(kp)
    /\ \A f \in PubFiles :
          Incomplete(f) =>
              \E e \in PubFailures : e.outcome = "writefail"

\* a write of <stem>.key.pub has failed midway and its incomplete file
\* lies beside the private key
C13_Witness ==
    \E f \in PubFiles :
        /\ Incomplete(f)
        /\ \E g \in FileNamed(files, f.stem, "key") : ~Incomplete(g)

\* C14: once the validation has passed the process does not end on its
\* own: whatever the workers do, main is never past wg.Wait, the process
\* is running and, once started, the reporter is ticking.
C14_NeverEndsOnItsOwn ==
    mainpc # "validate" =>
        /\ proc = "running"
        /\ mainpc \in {"spawn", "wait"}
        /\ mainpc = "wait" => rpc = "ticking"

\* the positions of a worker inside an iteration, after GenerateKey
InIteration == {"count", "hit", "encode", "wkey", "wpub", "log"}

\* C15: under weak fairness of each worker, a worker that is inside an
\* iteration is back at the generate step in the end, whatever the outcome
\* of the iteration; it waits for nobody.
C15_WorkerReturnsToGenerate ==
    \A w \in Workers : (wpc[w] \in InIteration) ~> (wpc[w] = "gen")

\* C16: the reporter reads totalAttempts by an atomic load, which returns
\* the value the latest atomic increment left: whenever a poll prints a
\* new value, it is the value counter has at that moment.
C16_ReporterLoadsCounterAtomically ==
    [][seen' # seen => seen' = counter]_vars

\* the configuration the goroutines share read-only
Settings == <<suffixes, ignoreCase, numWorkers, passphrase>>

\* C17: no step changes the suffix list, the ignore-case flag, the worker
\* count or the passphrase; a poll of the reporter changes neither counter
\* and no file; a counter changes only by the add of a worker that stands
\* at that add, and the files change only by the write of a worker that
\* stands at a write.
C17_FrameOfSharedState ==
    [][/\ Settings' = Settings
       /\ seen' # seen =>
             counter' = counter /\ found' = found /\ files' = files
       /\ counter' # counter =>
             \E w \in Workers : wpc[w] = "count" /\ wpc'[w] # "count"
       /\ found' # found =>
             \E w \in Workers : wpc[w] = "hit" /\ wpc'[w] = "encode"
       /\ files' # files =>
             \E w \in Workers : wpc[w] \in {"wkey", "wpub"} /\ wpc'[w] # wpc[w]
      ]_vars

\* with -i set a candidate has matched through the folding of hasSuffix,
\* the reporter has printed, and the suffix list is as it was given
C17_Witness ==
    /\ ignoreCase
    /\ suffixes = << <<"A", "b">>, <<"b", "A">> >>
    /\ found = 1
    /\ seen = 1

\* the workers that have counted their candidate, found it matching and
\* not yet added it to found
AtFoundAdd == {w \in Workers : wpc[w] = "hit"}

\* C18: in every reachable state found <= counter; more exactly, the
\* matches added to found and those about to be added are all among the
\* candidates already added to counter.
C18_FoundAtMostCounter ==
    /\ found <= counter
    /\ found + Cardinality(AtFoundAdd) <= counter

\* two workers, every candidate counted is a match: the bound is reached
C18_Witness ==
    /\ numWorkers = 2
    /\ iter[1] = 1 /\ iter[2] = 1
    /\ counter = 2
    /\ found = 2

\* the stems that have a file of the extension
StemsOf(ext) == {f.stem : f \in {g \in files : g.ext = ext}}

\* C19: in the worker-pool program a <stem>.key.pub exists only if a
\* <stem>.key of the same stem exists; a worker that stands at the write
\* of the public key, or past it, has its <stem>.key on disk.
C19_PubFileImpliesKeyFile ==
    /\ StemsOf("pub") \subseteq StemsOf("key")
    /\ \A w \in Workers :
          wpc[w] \in {"wpub", "log"} => keyFile[w] \in StemsOf("key")

\* a public-key write has failed, its private key stays, and a pair of
\* files is on disk
C19_Witness ==
    /\ PubFailures # {}
    /\ StemsOf("pub") # {}
    /\ Cardinality(StemsOf("key")) = 2

\* the iterations that obtained the stem t from time.Now(): those in
\* progress and those that are over (each of them has logged its outcome)
UsersOf(t) ==
    {<<w, iter[w]>> : w \in {v \in Workers : keyFile[v] = t}}
        \cup {<<l.w, l.it>> : l \in {m \in logged : m.stem = t}}

\* the stem was obtained by one iteration at most
Unshared(t) == Cardinality(UsersOf(t)) <= 1

\* the workers between their two writes for the stem t
BetweenWrites(t) == {w \in Workers : wpc[w] = "wpub" /\ keyFile[w] = t}

\* the two files are the private and the public part of one key pair
PairOf(k, p) ==
    \E kp \in 1..NumKeys :
        k.data = privateKeyPEM(kp, passphrase) /\ p.data = PubLine(kp)

\* the pair of files of the key pair kp is on disk under the stem t
PairOnDisk(kp, t) ==
    /\ \E k \in FileNamed(files, t, "key") :
          k.data = privateKeyPEM(kp, passphrase)
    /\ \E p \in FileNamed(files, t, "pub") : p.data = PubLine(kp)

\* C20 as stated: for every stem with both files and no worker between
\* its two writes the files are the two parts of one key pair, and every
\* match with both writes done has its pair on disk.
C20_PairsConsistent ==
    /\ \A t \in Clock :
          BetweenWrites(t) = {} =>
              \A k \in FileNamed(files, t, "key"),
                 p \in FileNamed(files, t, "pub") : PairOf(k, p)
    /\ \A l \in FoundLines : PairOnDisk(l.kp, l.stem)

\* C20 as the code has it: the same for the stems that one iteration only
\* has obtained from the clock, and for a <stem>.key.pub that is complete.
\* (Two matches with one time stamp write the same two files, and a write
\* that fails midway leaves an incomplete file.)
C20_PairsConsistentOnUnsharedStems ==
    /\ \A t \in Clock :
          Unshared(t) =>
              \A k \in FileNamed(files, t, "key"),
                 p \in FileNamed(files, t, "pub") :
                  ~Incomplete(p) => PairOf(k, p)
    /\ \A l \in FoundLines : Unshared(l.stem) => PairOnDisk(l.kp, l.stem)

\* two matches with two time stamps, each with its pair on disk
C20_Witness ==
    /\ Cardinality({l.stem : l \in FoundLines}) = 2
    /\ \A l \in FoundLines : Unshared(l.stem) /\ PairOnDisk(l.kp, l.stem)

=============================================================================
